---- MODULE Spec2Model ----
(***************************************************************************)
(* EB-1 eligibility screener (src/zz.py).                                  *)
(*                                                                         *)
(* The classification engine check_eb1_eligibility, the consolidation of   *)
(* the two input channels done by main on "Check Eligibility", the callers *)
(* of the engine, and the two report functions create_json_report and      *)
(* create_markdown_report.                                                 *)
(*                                                                         *)
(* Four specifications share the variables: Spec (one call of the engine   *)
(* on a map, directly or through the handler), ReportSpec (one call of a   *)
(* report function), CallerSpec (a caller making several calls and writing *)
(* into the records it holds) and SessionSpec (the Streamlit session of    *)
(* main under widget changes and clicks).                                  *)
(*                                                                         *)
(* Python values are written as strings: True is "True", False is "False", *)
(* None is "None", and a str is itself.  A dict is a function whose domain *)
(* is the set of keys present; where the order of its keys is read, the    *)
(* order is kept beside it (key_order).  A status string is the sequence   *)
(* of its parts <<glyph, " ", text>>, the glyph named by its meaning.      *)
(***************************************************************************)
EXTENDS Integers, Sequences, FiniteSets, TLC

VARIABLES criteria_data, criteria_data_raw, criteria_data_calc, result,
          run_screener, pc,
          key_order,        \* the keys of criteria_data in insertion order
          json_report,      \* what create_json_report returned
          markdown_report,  \* what create_markdown_report returned
          displayed,        \* what main shows in the result column
          heap,             \* the records built by the engine's returns
          ref               \* the place in heap of the record last returned

reportVars == <<key_order, json_report, markdown_report>>
callerVars == <<displayed, heap, ref>>

vars == <<criteria_data, criteria_data_raw, criteria_data_calc, result,
          run_screener, pc, reportVars, callerVars>>

----------------------------------------------------------------------------
(* Python values *)

PyTrue == "True"
PyFalse == "False"
PyNone == "None"
PyBool == {PyTrue, PyFalse}

\* bool(v): None, False and the empty string are falsy.
Truthy(v) == v \notin {PyFalse, PyNone, ""}

\* sum() over bools: True counts 1, False counts 0.
BoolToInt(v) == IF v = PyTrue THEN 1 ELSE 0

\* a or b
PyOr(a, b) == IF Truthy(a) THEN a ELSE b

\* dict.get(key, default) and dict.get(key)
Get(d, key, default) == IF key \in DOMAIN d THEN d[key] ELSE default
GetNone(d, key) == Get(d, key, PyNone)

\* {} and a Python function ending without a return
EmptyDict == [k \in {} |-> PyNone]
NoReturn == [none |-> PyNone]

\* sum(xs) over a list of bools
RECURSIVE SumTo(_, _)
SumTo(xs, n) == IF n = 0 THEN 0 ELSE SumTo(xs, n - 1) + BoolToInt(xs[n])
sum(xs) == SumTo(xs, Len(xs))

max(a, b) == IF a >= b THEN a ELSE b

RECURSIVE join(_, _)
join(sep, xs) ==
    IF xs = <<>> THEN ""
    ELSE IF Len(xs) = 1 THEN xs[1]
    ELSE xs[1] \o sep \o join(sep, Tail(xs))

\* The glyphs that open a status string (src/zz.py:54, 269, 391, 439).
CheckMark == "U+2705"
YellowCircle == "U+1F7E1"
OrangeCircle == "U+1F7E0"
CrossMark == "U+274C"

----------------------------------------------------------------------------
(* The criteria keys: CRITERIA_QUESTIONS, in its order (src/zz.py:8-37) *)

CRITERIA_KEYS ==
    << "major_award", "lesser_awards", "membership", "publications", "judging",
       "original_contributions", "authorship", "performances", "high_salary",
       "commercial_success",
       "experience", "offer", "tenure",
       "published_articles", "judging_research",
       "original_contributions_research", "lesser_awards_b", "membership_b",
       "one_year_exp", "transfer", "managerial_role" >>

AllKeys == {CRITERIA_KEYS[i] : i \in 1..Len(CRITERIA_KEYS)}

\* st.checkbox keys (src/zz.py:622-640, 672-676)
CheckboxKeys ==
    { "major_award", "lesser_awards", "membership", "publications", "judging",
      "original_contributions", "authorship", "performances", "high_salary",
      "commercial_success", "published_articles", "judging_research",
      "original_contributions_research", "lesser_awards_b", "membership_b" }

\* st.selectbox keys with options ["no", "yes"] (src/zz.py:655-704)
YesNoKeys == {"offer", "tenure", "one_year_exp", "transfer", "managerial_role"}
YesNo == {"no", "yes"}

\* st.selectbox options of 'experience' (src/zz.py:648-653)
ExperienceOptions == {"<3_years", "3_years"}

----------------------------------------------------------------------------
(* check_eb1_eligibility (src/zz.py:42-457) *)

\* src/zz.py:72-82
eb1a_criteria_met(data) ==
    sum(<< Get(data, "lesser_awards", PyFalse),
           Get(data, "membership", PyFalse),
           Get(data, "publications", PyFalse),
           Get(data, "judging", PyFalse),
           Get(data, "original_contributions", PyFalse),
           Get(data, "authorship", PyFalse),
           Get(data, "performances", PyFalse),
           Get(data, "high_salary", PyFalse),
           Get(data, "commercial_success", PyFalse) >>)

\* Mutation: the count reads the channel-B keys of the two shared facts.
eb1b_criteria_met_ChannelKeys(data) ==
    sum(<< Get(data, "published_articles", PyFalse),
           Get(data, "judging_research", PyFalse),
           Get(data, "original_contributions_research", PyFalse),
           IF GetNone(data, "tenure") = "yes" THEN PyTrue ELSE PyFalse,
           Get(data, "lesser_awards_b", PyFalse),
           Get(data, "membership_b", PyFalse) >>)

\* src/zz.py:86-93
eb1b_criteria_met(data) ==
    sum(<< Get(data, "published_articles", PyFalse),
           Get(data, "judging_research", PyFalse),
           Get(data, "original_contributions_research", PyFalse),
           IF GetNone(data, "tenure") = "yes" THEN PyTrue ELSE PyFalse,
           Get(data, "lesser_awards", PyFalse),
           Get(data, "membership", PyFalse) >>)

\* src/zz.py:95-98
has_eb1b_basics(data) ==
    /\ GetNone(data, "experience") = "3_years"
    /\ GetNone(data, "offer") = "yes"

\* src/zz.py:100
eb1b_eligible(data) ==
    has_eb1b_basics(data) /\ eb1b_criteria_met(data) >= 2

\* Mutation: the transfer requirement is not tested.
eb1c_eligible_NoTransfer(data) ==
    /\ GetNone(data, "managerial_role") = "yes"
    /\ GetNone(data, "one_year_exp") = "yes"

\* src/zz.py:103-107
eb1c_eligible(data) ==
    /\ GetNone(data, "managerial_role") = "yes"
    /\ GetNone(data, "one_year_exp") = "yes"
    /\ GetNone(data, "transfer") = "yes"

\* Mutation: only the managerial role makes a partial category-C profile.
eb1c_partial_ManagerOnly(data) == GetNone(data, "managerial_role") = "yes"
\* src/zz.py:413
eb1c_partial(data) ==
    \E k \in {"managerial_role", "one_year_exp", "transfer"} :
        GetNone(data, k) = "yes"

\* Mutation: the category-B count leaves out the tenure-track position.
Locals_NoTenure(data) ==
    [ eb1a_criteria_met |-> eb1a_criteria_met(data),
      eb1b_criteria_met |->
          eb1b_criteria_met(data)
              - BoolToInt(IF GetNone(data, "tenure") = "yes" THEN PyTrue ELSE PyFalse),
      has_eb1b_basics |-> has_eb1b_basics(data),
      eb1b_eligible |-> eb1b_eligible(data),
      eb1c_eligible |-> eb1c_eligible(data) ]
\* The local variables of the function once the counts are taken
\* (src/zz.py:72-107).
Locals(data) ==
    [ eb1a_criteria_met |-> eb1a_criteria_met(data),
      eb1b_criteria_met |-> eb1b_criteria_met(data),
      has_eb1b_basics |-> has_eb1b_basics(data),
      eb1b_eligible |-> eb1b_eligible(data),
      eb1c_eligible |-> eb1c_eligible(data) ]

\* src/zz.py:359-363
paths(v) ==
    (IF v.eb1a_criteria_met >= 1
        THEN <<"EB-1A (" \o ToString(v.eb1a_criteria_met) \o "/10)">>
        ELSE <<>>)
    \o
    (IF v.eb1b_criteria_met >= 1
        THEN <<"EB-1B (" \o ToString(v.eb1b_criteria_met) \o "/6)">>
        ELSE <<>>)

(* The conditions of the if statements, in the order of the source; v holds *)
(* the local variables.                                                     *)

\* Mutation: the override test reads the neighbouring key.
MajorAwardCond_WrongKey(data) == Truthy(GetNone(data, "lesser_awards"))
\* src/zz.py:51
MajorAwardCond(data) == Truthy(GetNone(data, "major_award"))
\* src/zz.py:112
Outcome1Cond(data, v) == v.eb1a_criteria_met >= 7
\* Mutation: the lower bound of the band is exclusive.
Outcome2Cond_Exclusive(data, v) == v.eb1a_criteria_met > 5
\* src/zz.py:134
Outcome2Cond(data, v) == v.eb1a_criteria_met >= 5
\* Mutation: the band holds for exactly 3 criteria.
Outcome3Cond_Exactly(data, v) == v.eb1a_criteria_met = 3
\* src/zz.py:156
Outcome3Cond(data, v) == v.eb1a_criteria_met >= 3
\* Mutation: the threshold of the category-A rule above is copied.
Outcome4Cond_CopiedThreshold(data, v) == v.eb1b_eligible /\ v.eb1b_criteria_met >= 7
\* src/zz.py:178
Outcome4Cond(data, v) == v.eb1b_eligible /\ v.eb1b_criteria_met >= 5
\* Mutation: the lower bound of the band is exclusive.
Outcome5Cond_Exclusive(data, v) == v.eb1b_eligible /\ v.eb1b_criteria_met > 3
\* src/zz.py:200
Outcome5Cond(data, v) == v.eb1b_eligible /\ v.eb1b_criteria_met >= 3
\* src/zz.py:222
Outcome6Cond(data, v) == v.eb1b_eligible
\* src/zz.py:244
Outcome7Cond(data, v) == v.eb1c_eligible
\* src/zz.py:266
Outcome8Cond(data, v) ==
    /\ v.eb1b_criteria_met >= 2
    /\ GetNone(data, "offer") = "yes"
    /\ GetNone(data, "experience") # "3_years"
\* src/zz.py:288
Outcome9Cond(data, v) ==
    /\ v.eb1b_criteria_met >= 2
    /\ GetNone(data, "experience") = "3_years"
    /\ GetNone(data, "offer") # "yes"
\* Mutation: any category-B criterion, the basics not tested.
Outcome10Cond_AnyCriterion(data, v) == v.eb1b_criteria_met >= 1
\* src/zz.py:310
Outcome10Cond(data, v) == v.has_eb1b_basics /\ v.eb1b_criteria_met = 1
\* src/zz.py:333
Outcome11Cond(data, v) == v.eb1a_criteria_met = 2
\* Mutation: the dual outcome needs exactly one criterion of each category.
Outcome12Cond_Exactly(data, v) == v.eb1a_criteria_met = 1 /\ v.eb1b_criteria_met = 1
\* src/zz.py:358
Outcome12Cond(data, v) == v.eb1a_criteria_met = 1 /\ v.eb1b_criteria_met >= 1
\* src/zz.py:388
Outcome13Cond(data, v) == v.eb1a_criteria_met = 1 \/ v.eb1b_criteria_met = 1
\* src/zz.py:413-415
Outcome14Cond(data, v) ==
    /\ v.eb1a_criteria_met = 0
    /\ v.eb1b_criteria_met = 0
    /\ eb1c_partial(data)
    /\ ~v.eb1c_eligible
\* Mutation: the "0 criteria" outcome is returned only when both counts are 0.
Outcome15Cond_ZeroCriteria(data, v) ==
    v.eb1a_criteria_met = 0 /\ v.eb1b_criteria_met = 0
\* src/zz.py:437: the last return is unconditional
Outcome15Cond(data, v) == TRUE

(* The returned records. *)

\* src/zz.py:52-69
MajorAwardOutcome ==
    [ category |-> "EB-1A",
      status |-> <<CheckMark, " ", "HIGHLY LIKELY">>,
      score |-> "10/10",
      color |-> "#006400",
      title |-> "Major Award Override - Exceptional Case",
      details |-> "You possess a major internationally recognized award (Nobel Prize, Oscar, Pulitzer Prize, Olympic Medal, Grammy, etc.). This single achievement typically satisfies all EB-1A requirements without needing additional criteria.",
      next_steps |-> <<"Gather official award documentation and certificates",
        "Compile media coverage and press releases about your award",
        "Prepare detailed impact statement of your achievement",
        "Document sustained acclaim following the award",
        "Consult with immigration attorney for petition preparation",
        "Prepare expert opinion letters highlighting award significance">>,
      strength |-> "EXCEPTIONAL",
      processing |-> "Self-petition possible. Very high approval rate." ]

\* src/zz.py:113-131
Outcome1(v) ==
    [ category |-> "EB-1A",
      status |-> <<CheckMark, " ", "EXCEPTIONAL">>,
      score |-> ToString(v.eb1a_criteria_met) \o "/10",
      color |-> "#006400",
      title |-> "Extraordinary Ability - Exceptional Profile",
      details |-> "You meet " \o ToString(v.eb1a_criteria_met) \o " of 10 EB-1A criteria (only 3 required). This is an exceptionally strong profile demonstrating sustained national or international acclaim at the very top of your field. You exceed requirements by a significant margin.",
      next_steps |-> <<"Compile comprehensive documentation for all criteria",
        "Obtain 6-10 expert opinion letters from internationally recognized leaders",
        "Prepare detailed CV with emphasis on impact and recognition",
        "Document evidence of sustained acclaim over multiple years",
        "Gather citation reports and impact metrics",
        "Engage experienced immigration attorney for premium processing",
        "Consider expedited processing given strength of case">>,
      strength |-> "EXCEPTIONAL",
      processing |-> "Self-petition possible. Extremely high approval probability." ]

\* src/zz.py:135-153
Outcome2(v) ==
    [ category |-> "EB-1A",
      status |-> <<CheckMark, " ", "VERY STRONG">>,
      score |-> ToString(v.eb1a_criteria_met) \o "/10",
      color |-> "#228B22",
      title |-> "Extraordinary Ability - Very Strong Profile",
      details |-> "You meet " \o ToString(v.eb1a_criteria_met) \o " of 10 EB-1A criteria (only 3 required). This is a very strong profile with substantial evidence of extraordinary ability. You significantly exceed minimum requirements.",
      next_steps |-> <<"Document all criteria with strong evidence",
        "Obtain 5-8 expert opinion letters from field leaders",
        "Prepare comprehensive CV highlighting major achievements",
        "Compile evidence of sustained acclaim and impact",
        "Gather media coverage and recognition documentation",
        "Work with immigration attorney for strategic petition",
        "Consider self-petition for faster processing">>,
      strength |-> "VERY STRONG",
      processing |-> "Self-petition recommended. Very high approval rate." ]

\* src/zz.py:157-175
Outcome3(v) ==
    [ category |-> "EB-1A",
      status |-> <<CheckMark, " ", "QUALIFIED">>,
      score |-> ToString(v.eb1a_criteria_met) \o "/10",
      color |-> "#32CD32",
      title |-> "Extraordinary Ability - Meets Requirements",
      details |-> "You meet " \o ToString(v.eb1a_criteria_met) \o " of 10 EB-1A criteria (3 required). You meet the basic requirements for EB-1A. Success depends heavily on the quality and strength of your documentation.",
      next_steps |-> <<"Focus on quality documentation for all criteria",
        "Obtain 4-6 expert opinion letters from recognized experts",
        "Prepare detailed evidence packages for each criterion",
        "Document sustained acclaim over time",
        "Review criteria you might partially meet for additional evidence",
        "Consult attorney to assess documentation strength",
        "Consider whether criteria meet \"extraordinary ability\" standard">>,
      strength |-> "QUALIFIED",
      processing |-> "Self-petition possible. Approval depends on evidence quality." ]

\* src/zz.py:179-197
Outcome4(v) ==
    [ category |-> "EB-1B",
      status |-> <<CheckMark, " ", "EXCEPTIONAL">>,
      score |-> ToString(v.eb1b_criteria_met) \o "/6",
      color |-> "#006400",
      title |-> "Outstanding Researcher/Professor - Exceptional",
      details |-> "You meet " \o ToString(v.eb1b_criteria_met) \o " of 6 EB-1B criteria (only 2 required) plus all experience and job offer requirements. This is an outstanding academic/research profile.",
      next_steps |-> <<"Secure formal permanent job offer letter on letterhead",
        "Document 3+ years teaching/research experience clearly",
        "Compile comprehensive research achievements portfolio",
        "Obtain letters from 5-7 independent experts in your field",
        "Prepare citation reports and impact metrics",
        "Work closely with employer and attorney for petition",
        "Prepare detailed description of research contributions">>,
      strength |-> "EXCEPTIONAL",
      processing |-> "Employer-sponsored petition. Extremely high approval rate." ]

\* src/zz.py:201-219
Outcome5(v) ==
    [ category |-> "EB-1B",
      status |-> <<CheckMark, " ", "VERY STRONG">>,
      score |-> ToString(v.eb1b_criteria_met) \o "/6",
      color |-> "#228B22",
      title |-> "Outstanding Researcher/Professor - Very Strong",
      details |-> "You meet " \o ToString(v.eb1b_criteria_met) \o " of 6 EB-1B criteria (only 2 required) plus experience and job offer. This is a very strong academic profile.",
      next_steps |-> <<"Obtain formal permanent position offer letter",
        "Verify and document 3+ years experience thoroughly",
        "Compile all publications and research documentation",
        "Obtain letters from 4-6 independent field experts",
        "Document impact of research contributions",
        "Coordinate with employer for petition sponsorship",
        "Prepare comprehensive evidence packages">>,
      strength |-> "VERY STRONG",
      processing |-> "Employer-sponsored petition. Very high approval rate." ]

\* src/zz.py:223-241
Outcome6(v) ==
    [ category |-> "EB-1B",
      status |-> <<CheckMark, " ", "QUALIFIED">>,
      score |-> ToString(v.eb1b_criteria_met) \o "/6",
      color |-> "#32CD32",
      title |-> "Outstanding Researcher/Professor - Meets Requirements",
      details |-> "You meet " \o ToString(v.eb1b_criteria_met) \o " of 6 EB-1B criteria (2 required) with required experience and job offer. You meet the basic EB-1B requirements.",
      next_steps |-> <<"Ensure job offer is for permanent research/teaching position",
        "Verify 3+ years experience is properly documented",
        "Gather strong evidence for all criteria met",
        "Obtain letters from 3-5 independent experts",
        "Coordinate closely with employer for petition",
        "Consult attorney for petition strategy and documentation",
        "Ensure research contributions are well-documented">>,
      strength |-> "QUALIFIED",
      processing |-> "Employer-sponsored petition. Good approval probability." ]

\* src/zz.py:245-263
Outcome7 ==
    [ category |-> "EB-1C",
      status |-> <<CheckMark, " ", "QUALIFIED">>,
      score |-> "Met",
      color |-> "#32CD32",
      title |-> "Multinational Manager/Executive - Qualified",
      details |-> "You meet all EB-1C requirements: 1+ year managerial/executive experience abroad with transfer to US affiliate/parent/subsidiary in similar role. This is the most straightforward EB-1 path for qualifying executives.",
      next_steps |-> <<"Document 1+ year continuous managerial employment abroad",
        "Verify US position is also managerial/executive level",
        "Confirm parent/subsidiary/affiliate corporate relationship",
        "Prepare organizational charts for foreign and US entities",
        "Document your supervisory and decision-making authority",
        "Work with employer and attorney for petition preparation",
        "Gather evidence of companies qualifying relationship">>,
      strength |-> "QUALIFIED",
      processing |-> "Employer-sponsored petition. Standard approval rate for qualifying cases." ]

\* src/zz.py:267-285
Outcome8(v) ==
    [ category |-> "EB-1B",
      status |-> <<YellowCircle, " ", "NEEDS EXPERIENCE">>,
      score |-> ToString(v.eb1b_criteria_met) \o "/6",
      color |-> "#FF8C00",
      title |-> "Outstanding Researcher - Need 3 Years Experience",
      details |-> "You meet " \o ToString(v.eb1b_criteria_met) \o " of 6 EB-1B criteria (2 required) and have a job offer, but lack the required 3 years of research/teaching experience. Once you gain sufficient experience, you should qualify.",
      next_steps |-> <<"Continue building research/teaching experience to reach 3 years",
        "Maintain job offer or secure new offer when eligible",
        "Continue strengthening research profile during waiting period",
        "Add publications and research contributions",
        "Build citation count and impact metrics",
        "Revisit EB-1B eligibility once 3-year mark is reached",
        "Consider EB-2 or EB-3 as interim pathways">>,
      strength |-> "NEEDS EXPERIENCE",
      processing |-> "Not yet eligible. Revisit after gaining required experience." ]

\* src/zz.py:289-307
Outcome9(v) ==
    [ category |-> "EB-1B",
      status |-> <<YellowCircle, " ", "NEEDS JOB OFFER">>,
      score |-> ToString(v.eb1b_criteria_met) \o "/6",
      color |-> "#FF8C00",
      title |-> "Outstanding Researcher - Need Permanent Job Offer",
      details |-> "You meet " \o ToString(v.eb1b_criteria_met) \o " of 6 EB-1B criteria (2 required) and have 3+ years experience, but need a permanent research/teaching position offer from a US university or research institution.",
      next_steps |-> <<"Actively seek permanent research/teaching positions in US",
        "Apply to universities and research institutions",
        "Leverage your research profile and publications",
        "Network at academic conferences and institutions",
        "Once offer secured, proceed with EB-1B petition",
        "Consider EB-1A as alternative if outstanding achievements",
        "Maintain and strengthen research credentials during search">>,
      strength |-> "NEEDS JOB OFFER",
      processing |-> "Not yet eligible. Secure permanent position offer first." ]

\* src/zz.py:311-330
Outcome10(v) ==
    [ category |-> "EB-1B",
      status |-> <<YellowCircle, " ", "ONE CRITERION SHORT">>,
      score |-> ToString(v.eb1b_criteria_met) \o "/6",
      color |-> "#FF8C00",
      title |-> "Outstanding Researcher - Need One More Criterion",
      details |-> "You have experience and job offer but meet only " \o ToString(v.eb1b_criteria_met) \o " of 6 EB-1B criteria (2 required). You need to strengthen your profile in one more area to qualify.",
      next_steps |-> <<"Review all 6 EB-1B criteria carefully for partial matches",
        "Focus on achieving one additional criterion quickly",
        "Publish additional articles in peer-reviewed journals",
        "Seek peer review opportunities in your field",
        "Apply for academic awards and recognition",
        "Join prestigious professional organizations",
        "Consult attorney to assess borderline criteria",
        "Consider EB-2 NIW as backup option">>,
      strength |-> "BORDERLINE",
      processing |-> "Not currently eligible. Strengthen profile before filing." ]

\* src/zz.py:334-355
Outcome11(v) ==
    [ category |-> "EB-1A",
      status |-> <<YellowCircle, " ", "ONE CRITERION SHORT">>,
      score |-> ToString(v.eb1a_criteria_met) \o "/10",
      color |-> "#FF8C00",
      title |-> "Extraordinary Ability - Need One More Criterion",
      details |-> "You meet " \o ToString(v.eb1a_criteria_met) \o " of 10 EB-1A criteria but need 3 minimum. You are very close to qualifying. With focused effort on one additional criterion, you could become eligible.",
      next_steps |-> <<"Review all 10 criteria carefully for partial matches",
        "Focus on achieving one additional criterion",
        "Pursue awards and recognition in your field",
        "Seek judging/peer review opportunities",
        "Increase media coverage of your work",
        "Join organizations requiring outstanding achievements",
        "Document high salary if applicable",
        "Consult attorney to assess marginal criteria",
        "Consider EB-2 NIW as viable alternative",
        "Revisit EB-1A in 6-12 months">>,
      strength |-> "BORDERLINE",
      processing |-> "Not currently eligible. One more criterion needed." ]

\* src/zz.py:365-385
Outcome12(v) ==
    [ category |-> "EB-1A/EB-1B",
      status |-> <<YellowCircle, " ", "POTENTIAL">>,
      score |-> ToString(max(v.eb1a_criteria_met, v.eb1b_criteria_met)) \o " criteria",
      color |-> "#FFA500",
      title |-> "Multiple EB-1 Pathways Possible - Build Profile",
      details |-> "You show potential for multiple EB-1 pathways: " \o join(", ", paths(v)) \o ". However, you need significantly more achievements to qualify for either category.",
      next_steps |-> <<"Choose strategic path: Academic (EB-1B) or General (EB-1A)",
        "For EB-1A: Need 2 more criteria from 10 available",
        "For EB-1B: Need qualifying criteria + experience + offer",
        "Publish in top-tier journals and conferences",
        "Build citation count and research impact",
        "Pursue awards, media coverage, and recognition",
        "Seek peer review and judging opportunities",
        "Consider EB-2 NIW as more realistic current option",
        "Revisit EB-1 eligibility in 1-2 years">>,
      strength |-> "DEVELOPING",
      processing |-> "Not currently eligible. Significant profile building needed." ]

\* src/zz.py:389-409
Outcome13 ==
    [ category |-> "EB-1",
      status |-> <<OrangeCircle, " ", "WEAK PROFILE">>,
      score |-> "1 criterion met",
      color |-> "#FF6347",
      title |-> "Not Currently Qualified - Significant Development Needed",
      details |-> "You meet only 1 EB-1 criterion. EB-1 requires substantially more achievements and recognition. You need significant career development to become competitive for this category.",
      next_steps |-> <<"Focus on long-term career development (2-3 years)",
        "Build strong publication record in respected venues",
        "Pursue multiple forms of recognition and awards",
        "Develop leadership roles in professional organizations",
        "Seek opportunities for media coverage and speaking",
        "Build citation count and measurable impact",
        "Consider EB-2 or EB-3 as more appropriate pathways",
        "Revisit EB-1 after substantial achievements",
        "Work with career mentor to build profile strategically">>,
      strength |-> "WEAK",
      processing |-> "Not eligible. Consider EB-2/EB-3 alternatives." ]

\* src/zz.py:416-434
Outcome14 ==
    [ category |-> "EB-1C",
      status |-> <<YellowCircle, " ", "PARTIAL EB-1C">>,
      score |-> "Incomplete",
      color |-> "#FF8C00",
      title |-> "Multinational Executive - Incomplete Requirements",
      details |-> "You have some managerial/executive experience but do not meet all EB-1C requirements. EB-1A and EB-1B are not viable based on your profile.",
      next_steps |-> <<"Verify you have 1+ year managerial role with foreign entity",
        "Ensure US transfer is to parent/subsidiary/affiliate company",
        "Confirm US position is also managerial/executive level",
        "Once all requirements met, EB-1C is possible",
        "Otherwise, consider EB-2 or EB-3 categories",
        "If not in managerial track, focus on EB-2 NIW",
        "Consult attorney for alternative pathways">>,
      strength |-> "INCOMPLETE",
      processing |-> "Not fully eligible. Complete all EB-1C requirements." ]

\* src/zz.py:437-457
Outcome15 ==
    [ category |-> "EB-1",
      status |-> <<CrossMark, " ", "NOT ELIGIBLE">>,
      score |-> "0 criteria",
      color |-> "#DC143C",
      title |-> "Not Qualified for EB-1 - Consider Alternative Categories",
      details |-> "Your current profile does not meet EB-1 requirements in any subcategory. EB-1 is the most selective employment-based category, reserved for those with extraordinary ability, outstanding research credentials, or multinational executive experience.",
      next_steps |-> <<"EB-1 is not appropriate at this career stage",
        "Focus on EB-2 NIW (National Interest Waiver) pathway",
        "EB-2 requires advanced degree + exceptional ability",
        "EB-3 is available for skilled workers and professionals",
        "Build career achievements for future EB-1 consideration",
        "Develop publication record and professional recognition",
        "Join professional organizations and seek leadership roles",
        "Consult attorney for EB-2/EB-3 evaluation",
        "Revisit EB-1 after 3-5 years of achievement building">>,
      strength |-> "NOT ELIGIBLE",
      processing |-> "EB-1 not viable. Pursue EB-2 or EB-3 categories." ]

\* The chain of returns after the major-award test (src/zz.py:109-457).
Outcomes(data, v) ==
    IF Outcome1Cond(data, v) THEN Outcome1(v)
    ELSE IF Outcome2Cond(data, v) THEN Outcome2(v)
    ELSE IF Outcome3Cond(data, v) THEN Outcome3(v)
    ELSE IF Outcome4Cond(data, v) THEN Outcome4(v)
    ELSE IF Outcome5Cond(data, v) THEN Outcome5(v)
    ELSE IF Outcome6Cond(data, v) THEN Outcome6(v)
    ELSE IF Outcome7Cond(data, v) THEN Outcome7
    ELSE IF Outcome8Cond(data, v) THEN Outcome8(v)
    ELSE IF Outcome9Cond(data, v) THEN Outcome9(v)
    ELSE IF Outcome10Cond(data, v) THEN Outcome10(v)
    ELSE IF Outcome11Cond(data, v) THEN Outcome11(v)
    ELSE IF Outcome12Cond(data, v) THEN Outcome12(v)
    ELSE IF Outcome13Cond(data, v) THEN Outcome13
    ELSE IF Outcome14Cond(data, v) THEN Outcome14
    ELSE IF Outcome15Cond(data, v) THEN Outcome15
    ELSE NoReturn

\* src/zz.py:42-457
check_eb1_eligibility(data) ==
    IF MajorAwardCond(data) THEN MajorAwardOutcome
    ELSE Outcomes(data, Locals(data))

-----
(* main: the "Check Eligibility" handler (src/zz.py:707-720) *)

\* Mutation: the copy is handed on without the consolidation.
Consolidate_Unmerged(data) == data

\* src/zz.py:712-716
Consolidate(data) ==
    [k \in DOMAIN data \cup {"lesser_awards", "membership"} |->
        IF k = "lesser_awards"
            THEN PyOr(Get(data, "lesser_awards", PyFalse),
                      Get(data, "lesser_awards_b", PyFalse))
        ELSE IF k = "membership"
            THEN PyOr(Get(data, "membership", PyFalse),
                      Get(data, "membership_b", PyFalse))
        ELSE data[k]]

----------------------------------------------------------------------------
(* The reports (src/zz.py:461-550)                                         *)
(*                                                                         *)
(* A report is kept as the structure it is written from: the JSON report   *)
(* as the dict handed to json.dumps, its criteria summary as the sequence  *)
(* of its <<question, value>> items; the Markdown report as its fields and *)
(* the sequence of its <<question, answer>> lines.                         *)

\* src/zz.py:8-37: the label table, an ordered map kept as its sequence of
\* <<key, question>> items.
CRITERIA_QUESTIONS ==
    <<
      <<"major_award",
        "Major internationally recognized award (Nobel, Oscar, etc.)">>,
      <<"lesser_awards",
        "Lesser nationally/internationally recognized awards (EB-1A)">>,
      <<"membership",
        "Membership requiring outstanding achievements (EB-1A)">>,
      <<"publications",
        "Published material about you in major media">>,
      <<"judging",
        "Judged work of others (peer reviewer, panelist)">>,
      <<"original_contributions",
        "Original contributions of major significance">>,
      <<"authorship",
        "Authorship of scholarly articles">>,
      <<"performances",
        "Work displayed at exhibitions/showcases">>,
      <<"high_salary",
        "High salary or significantly high remuneration">>,
      <<"commercial_success",
        "Commercial success in performing arts">>,
      <<"experience",
        "Research/teaching experience">>,
      <<"offer",
        "Permanent US job offer">>,
      <<"tenure",
        "Tenured/permanent position">>,
      <<"published_articles",
        "Published articles in international academic journals">>,
      <<"judging_research",
        "Judged research of others (peer review, grant panels)">>,
      <<"original_contributions_research",
        "Original research contributions of major significance to field">>,
      <<"lesser_awards_b",
        "Lesser recognized awards (EB-1B specific UI key)">>,
      <<"membership_b",
        "Membership requiring outstanding achievements (EB-1B specific UI key)">>,
      <<"one_year_exp",
        "Managerial/executive role abroad (1+ year)">>,
      <<"transfer",
        "Transferring to US affiliate/parent/subsidiary">>,
      <<"managerial_role",
        "US role is also managerial/executive">>
    >>

\* d.get(key, default) on an ordered map kept as its items
ItemsGet(items, key, default) ==
    IF \E i \in DOMAIN items : items[i][1] = key
    THEN items[CHOOSE i \in DOMAIN items : items[i][1] = key][2]
    ELSE default

\* d[key] = value on an ordered map: a key already present keeps its place
ItemsSet(items, key, value) ==
    IF \E i \in DOMAIN items : items[i][1] = key
    THEN [i \in DOMAIN items |->
              IF items[i][1] = key THEN <<key, value>> ELSE items[i]]
    ELSE Append(items, <<key, value>>)

\* str(value): a str is itself, and True, False and None are written as the
\* strings str gives them.
str(v) == v

\* s.replace(old, '') for a glyph: the glyph is no part of any text part.
replace(s, old) == SelectSeq(s, LAMBDA part : part # old)

\* s.strip(): the text parts neither begin nor end with white space.
RECURSIVE lstrip(_)
lstrip(s) == IF s # <<>> /\ s[1] = " " THEN lstrip(Tail(s)) ELSE s
RECURSIVE rstrip(_)
rstrip(s) ==
    IF s # <<>> /\ s[Len(s)] = " " THEN rstrip(SubSeq(s, 1, Len(s) - 1)) ELSE s
strip(s) == rstrip(lstrip(s))

\* The glyphs create_json_report removes from the category (src/zz.py:488).
StarGlyph == "U+1F31F"
MicroscopeGlyph == "U+1F52C"
OfficeGlyph == "U+1F3E2"

\* src/zz.py:473-480
display_value(key, value) ==
    IF key = "experience"
        THEN (IF value = "3_years" THEN "3+ years" ELSE "Less than 3 years")
    ELSE IF value \in {PyTrue, "yes"} THEN "Yes (" \o CheckMark \o ")"
    ELSE IF value \in {PyFalse, "no"} THEN "No (" \o CrossMark \o ")"
    ELSE str(value)

\* src/zz.py:467-482: the loop over criteria_data.items(), n items done
RECURSIVE user_criteria(_, _, _)
user_criteria(data, order, n) ==
    IF n = 0 THEN <<>>
    ELSE ItemsSet(user_criteria(data, order, n - 1),
                  ItemsGet(CRITERIA_QUESTIONS, order[n], order[n]),
                  display_value(order[n], data[order[n]]))

\* src/zz.py:461-499; criteria_data is the map data with its keys in order
create_json_report(data, order, res) ==
    [ Assessment_Result |->
        [ Status |->
              strip(replace(replace(replace(res.status, CheckMark),
                                    YellowCircle), CrossMark)),
          Category |->
              strip(replace(replace(replace(<<res.category>>, StarGlyph),
                                    MicroscopeGlyph), OfficeGlyph)),
          Title |-> res.title,
          Score |-> res.score,
          Strength |-> res.strength,
          Details |-> res.details,
          Processing_Guidance |-> res.processing,
          Recommended_Next_Steps |-> res.next_steps ],
      User_Input_Criteria_Summary |-> user_criteria(data, order, Len(order)) ]

\* src/zz.py:536-543
display_answer(key, answer) ==
    IF key = "experience"
        THEN (IF answer = "3_years" THEN "3+ years" ELSE "Less than 3 years")
    ELSE IF answer \in {PyTrue, "yes"} THEN CheckMark \o " YES"
    ELSE IF answer \in {PyFalse, "no"} THEN CrossMark \o " NO"
    ELSE str(answer)

\* src/zz.py:502-550
create_markdown_report(data, res, question_map) ==
    [ Status |-> res.status,
      Category |-> res.category,
      Title |-> res.title,
      Score |-> res.score,
      Strength |-> res.strength,
      Details |-> res.details,
      Processing_Guidance |-> res.processing,
      Recommended_Next_Steps |-> res.next_steps,
      Qualifications |->
          [i \in 1..Len(question_map) |->
              <<question_map[i][2],
                display_answer(question_map[i][1],
                               GetNone(data, question_map[i][1]))>>] ]

----------------------------------------------------------------------------
(* The attribute maps explored *)

\* The flags the engine reads only through a sum (src/zz.py:75-81, 87-89).
AOnlyKeys ==
    << "publications", "judging", "original_contributions", "authorship",
       "performances", "high_salary", "commercial_success" >>
ResearchKeys ==
    << "published_articles", "judging_research", "original_contributions_research" >>
\* The other checkboxes, and the two of them that only main reads.
OtherCheckboxKeys ==
    {"major_award", "lesser_awards", "membership", "lesser_awards_b", "membership_b"}
ChannelBKeys == {"lesser_awards_b", "membership_b"}

\* The engine reads the flags of these two lists only through the two sums,
\* so the maps explored set them in list order: a setting has a hole for each
\* false flag listed before its last true flag, and with no hole the true
\* flags are the first n of the list (every count 0..7 and 0..3 occurs).
\* MaxHoles bounds the holes of a map, the two lists taken together.  The
\* other eleven keys take every value of their widget.
MaxHoles == 0

Range(seq) == {seq[i] : i \in 1..Len(seq)}
Max(S) == CHOOSE x \in S : \A y \in S : y <= x
Holes(keys, t) ==
    LET on == {i \in 1..Len(keys) : t[keys[i]] = PyTrue}
    IN  IF on = {} THEN 0 ELSE Max(on) - Cardinality(on)

FlagPatterns ==
    {ar \in [Range(AOnlyKeys) -> PyBool] \X [Range(ResearchKeys) -> PyBool] :
        Holes(AOnlyKeys, ar[1]) + Holes(ResearchKeys, ar[2]) <= MaxHoles}

\* The keys of d in the order the widgets of main assign them
\* (src/zz.py:622-704), which is the order of the label table.
TableOrder(d) == SelectSeq(CRITERIA_KEYS, LAMBDA k : k \in DOMAIN d)

Merge(f, g) ==
    [k \in DOMAIN f \cup DOMAIN g |-> IF k \in DOMAIN f THEN f[k] ELSE g[k]]

\* A map that holds only the keys whose value is not the default: "all keys
\* optional, absent key = default".
Sparse(d) ==
    [k \in {x \in DOMAIN d : d[x] \notin {PyFalse, "no", "<3_years"}} |-> d[k]]

\* The maps explored.  "widgets": all 21 keys, as main collects them
\* (src/zz.py:611-704); "canonical": all keys but the two channel-B keys;
\* "sparse": a canonical map without its default entries.
InputForms == {"widgets", "canonical", "sparse"}

SomeInput(form, P(_)) ==
    \E ar \in FlagPatterns :
        \E b \in [IF form = "widgets" THEN OtherCheckboxKeys
                  ELSE OtherCheckboxKeys \ ChannelBKeys -> PyBool],
           y \in [YesNoKeys -> YesNo],
           e \in ExperienceOptions :
            LET d == Merge(ar[1], Merge(ar[2], Merge(b, Merge(y, [experience |-> e]))))
            IN  P(IF form = "sparse" THEN Sparse(d) ELSE d)

Init ==
    /\ \E form \in InputForms : SomeInput(form, LAMBDA d : criteria_data = d)
    /\ key_order = TableOrder(criteria_data)
    /\ criteria_data_raw = EmptyDict
    /\ criteria_data_calc = EmptyDict
    /\ result = EmptyDict
    /\ run_screener = FALSE
    /\ json_report = PyNone
    /\ markdown_report = PyNone
    /\ displayed = PyNone
    /\ heap = <<>>
    /\ ref = 0
    /\ pc = "input"

\* classify(canonical): a caller hands a map of canonical keys to the
\* engine as it is.
Classify ==
    /\ pc = "input"
    /\ DOMAIN criteria_data \cap ChannelBKeys = {}
    /\ criteria_data_calc' = criteria_data
    /\ result' = check_eb1_eligibility(criteria_data)
    /\ pc' = "classified"
    /\ UNCHANGED <<criteria_data, criteria_data_raw, run_screener, reportVars,
                   callerVars>>

\* src/zz.py:707-720
CheckEligibility ==
    /\ pc = "input"
    /\ DOMAIN criteria_data = AllKeys
    /\ criteria_data_raw' = criteria_data
    /\ criteria_data_calc' = Consolidate(criteria_data)
    /\ result' = check_eb1_eligibility(criteria_data_calc')
    /\ run_screener' = TRUE
    /\ pc' = "checked"
    /\ UNCHANGED <<criteria_data, reportVars, callerVars>>

Next == Classify \/ CheckEligibility

Spec == Init /\ [][Next]_vars

----------------------------------------------------------------------------
(* The report functions called on a map and a record                       *)

\* The map the widgets of main hold when the checkboxes of on are ticked,
\* the yes/no boxes of yes are set to 'yes' and the experience box to exp.
Widgets(on, yes, exp) ==
    [k \in AllKeys |->
        IF k = "experience" THEN exp
        ELSE IF k \in YesNoKeys THEN (IF k \in yes THEN "yes" ELSE "no")
        ELSE IF k \in on THEN PyTrue ELSE PyFalse]

\* One widget map for each return statement of the engine, in their order.
OutcomeProfiles ==
    << Widgets({"major_award"}, {}, "<3_years"),
       Widgets({"lesser_awards", "membership", "publications", "judging",
                "original_contributions", "authorship", "performances"},
               {}, "<3_years"),
       Widgets({"lesser_awards", "publications", "judging", "authorship",
                "high_salary"}, {}, "<3_years"),
       Widgets({"publications", "judging", "commercial_success"}, {}, "<3_years"),
       Widgets({"published_articles", "judging_research",
                "original_contributions_research", "lesser_awards_b"},
               {"offer", "tenure"}, "3_years"),
       Widgets({"published_articles", "judging_research",
                "original_contributions_research"}, {"offer"}, "3_years"),
       Widgets({"published_articles", "judging_research"}, {"offer"}, "3_years"),
       Widgets({}, {"managerial_role", "one_year_exp", "transfer"}, "<3_years"),
       Widgets({"published_articles", "judging_research"}, {"offer"}, "<3_years"),
       Widgets({"published_articles", "membership_b"}, {}, "3_years"),
       Widgets({"judging_research"}, {"offer"}, "3_years"),
       Widgets({"publications", "judging"}, {}, "<3_years"),
       Widgets({"authorship", "published_articles"}, {"tenure"}, "<3_years"),
       Widgets({"high_salary"}, {}, "<3_years"),
       Widgets({}, {"transfer"}, "3_years"),
       Widgets({}, {}, "<3_years") >>

\* The maps a caller hands to a report function directly: at most
\* MaxReportKeys of these keys, inserted in any order, each with any of
\* these values.  "notes" is no key of the label table, "5_years" and None
\* are no value of any widget.
MaxReportKeys == 2
ReportKeys == {"major_award", "experience", "offer", "membership_b", "notes"}
ReportValues == {PyTrue, PyFalse, "yes", "no", "3_years", "5_years", PyNone}

KeyOrders ==
    {o \in UNION {[1..n -> ReportKeys] : n \in 0..MaxReportKeys} :
        \A i, j \in DOMAIN o : i # j => o[i] # o[j]}

ReportInit ==
    /\ \/ \E i \in DOMAIN OutcomeProfiles :
            /\ criteria_data = OutcomeProfiles[i]
            /\ key_order = TableOrder(criteria_data)
            /\ result = check_eb1_eligibility(Consolidate(criteria_data))
       \/ \E o \in KeyOrders :
            /\ criteria_data \in [Range(o) -> ReportValues]
            /\ key_order = o
            /\ result = check_eb1_eligibility(EmptyDict)
    /\ criteria_data_raw = EmptyDict
    /\ criteria_data_calc = EmptyDict
    /\ run_screener = FALSE
    /\ json_report = PyNone
    /\ markdown_report = PyNone
    /\ displayed = PyNone
    /\ heap = <<>>
    /\ ref = 0
    /\ pc = "report_input"

\* src/zz.py:461-499
CreateJsonReport ==
    /\ pc = "report_input"
    /\ json_report' = create_json_report(criteria_data, key_order, result)
    /\ pc' = "json"
    /\ UNCHANGED <<criteria_data, key_order, result, criteria_data_raw,
                   criteria_data_calc, run_screener, markdown_report,
                   callerVars>>

\* src/zz.py:502-550
CreateMarkdownReport ==
    /\ pc = "report_input"
    /\ markdown_report' =
           create_markdown_report(criteria_data, result, CRITERIA_QUESTIONS)
    /\ pc' = "markdown"
    /\ UNCHANGED <<criteria_data, key_order, result, criteria_data_raw,
                   criteria_data_calc, run_screener, json_report, callerVars>>

ReportNext == CreateJsonReport \/ CreateMarkdownReport

ReportSpec == ReportInit /\ [][ReportNext]_vars

----------------------------------------------------------------------------
(* A caller of the three functions                                         *)
(*                                                                         *)
(* The caller holds a map and the records the engine has returned to it.   *)
(* heap lists the record objects in the order they were built, ref is the  *)
(* one returned last and result its content.  The caller may write into    *)
(* any record it holds and may take another map; pc names its last step.   *)
(* json_report and markdown_report hold the value returned by the step     *)
(* just taken.                                                             *)

\* Mutation: the record of a rule is built once and handed out again.
Return_Shared(objects, record) ==
    IF \E i \in DOMAIN objects : objects[i].title = record.title
    THEN [ heap |-> objects,
           ref |-> CHOOSE i \in DOMAIN objects : objects[i].title = record.title ]
    ELSE [ heap |-> Append(objects, record), ref |-> Len(objects) + 1 ]

\* return {...}: the dict display builds a new object at every evaluation
\* (src/zz.py:52-69, 113-130, ..., 438-457).
Return(objects, record) ==
    [ heap |-> Append(objects, record), ref |-> Len(objects) + 1 ]

\* The engine is called at most MaxCalls times.
MaxCalls == 2

\* The maps the caller passes: the widget maps of four outcomes, consolidated.
CallerInputs ==
    {Consolidate(OutcomeProfiles[i]) : i \in {1, 4, 13, 16}}

\* What the caller writes into a record it holds.
Tampered(record) ==
    { [record EXCEPT !.score = "edited"],
      [record EXCEPT !.next_steps = <<>>] }

CallerInit ==
    /\ criteria_data \in CallerInputs
    /\ key_order = TableOrder(criteria_data)
    /\ criteria_data_raw = EmptyDict
    /\ criteria_data_calc = EmptyDict
    /\ result = EmptyDict
    /\ run_screener = FALSE
    /\ json_report = PyNone
    /\ markdown_report = PyNone
    /\ displayed = PyNone
    /\ heap = <<>>
    /\ ref = 0
    /\ pc = "start"

\* record = check_eb1_eligibility(criteria_data)   (src/zz.py:42-457)
CallCheck ==
    /\ Len(heap) < MaxCalls
    /\ LET returned == Return(heap, check_eb1_eligibility(criteria_data))
       IN  /\ heap' = returned.heap
           /\ ref' = returned.ref
           /\ result' = returned.heap[returned.ref]
    /\ criteria_data_calc' = criteria_data
    /\ json_report' = PyNone
    /\ markdown_report' = PyNone
    /\ pc' = "check"
    /\ UNCHANGED <<criteria_data, key_order, criteria_data_raw, run_screener,
                   displayed>>

\* create_json_report(criteria_data, record)   (src/zz.py:461-499)
CallJsonReport ==
    /\ ref > 0
    /\ json_report' = create_json_report(criteria_data, key_order, heap[ref])
    /\ markdown_report' = PyNone
    /\ pc' = "json"
    /\ UNCHANGED <<criteria_data, key_order, criteria_data_raw,
                   criteria_data_calc, result, run_screener, callerVars>>

\* create_markdown_report(criteria_data, record, CRITERIA_QUESTIONS)
\* (src/zz.py:502-550)
CallMarkdownReport ==
    /\ ref > 0
    /\ markdown_report' =
           create_markdown_report(criteria_data, heap[ref], CRITERIA_QUESTIONS)
    /\ json_report' = PyNone
    /\ pc' = "markdown"
    /\ UNCHANGED <<criteria_data, key_order, criteria_data_raw,
                   criteria_data_calc, result, run_screener, callerVars>>

\* The caller writes into one of the records it holds.
MutateRecord ==
    /\ \E i \in DOMAIN heap : \E record \in Tampered(heap[i]) :
          /\ record # heap[i]
          /\ heap' = [heap EXCEPT ![i] = record]
    /\ result' = heap'[ref]
    /\ json_report' = PyNone
    /\ markdown_report' = PyNone
    /\ pc' = "mutate"
    /\ UNCHANGED <<criteria_data, key_order, criteria_data_raw,
                   criteria_data_calc, run_screener, displayed, ref>>

\* The caller takes another map.
ChangeInput ==
    /\ \E d \in CallerInputs :
          /\ d # criteria_data
          /\ criteria_data' = d
          /\ key_order' = TableOrder(d)
    /\ json_report' = PyNone
    /\ markdown_report' = PyNone
    /\ pc' = "input"
    /\ UNCHANGED <<criteria_data_raw, criteria_data_calc, result, run_screener,
                   callerVars>>

CallerNext ==
    \/ CallCheck
    \/ CallJsonReport
    \/ CallMarkdownReport
    \/ MutateRecord
    \/ ChangeInput

CallerSpec == CallerInit /\ [][CallerNext]_vars

----------------------------------------------------------------------------
(* main: the session (src/zz.py:590-758)                                   *)
(*                                                                         *)
(* Every interaction runs the script again: the widgets give their values  *)
(* to a new criteria_data, the handler runs if the button was clicked, and *)
(* the result column and the two downloads are drawn from the session      *)
(* state.  criteria_data_raw, result and run_screener are the entries of   *)
(* st.session_state.                                                       *)

\* The values the widgets hold before the user touches them
\* (src/zz.py:622-704).
WidgetDefault == Widgets({}, {}, "<3_years")

\* options of the widget of key k (src/zz.py:622-704)
WidgetOptions(k) ==
    IF k = "experience" THEN ExperienceOptions
    ELSE IF k \in YesNoKeys THEN YesNo
    ELSE PyBool

\* The widgets that differ from their default; at most MaxTicked do.
MaxTicked == 1
Ticked(d) == {k \in AllKeys : d[k] # WidgetDefault[k]}

\* Mutation: the Markdown download is written from the consolidated map.
Render_MergedMap(run, raw, res) ==
    IF run /\ res # EmptyDict
    THEN [ displayed |-> "results",
           json |-> create_json_report(raw, TableOrder(raw), res),
           markdown |-> create_markdown_report(Consolidate(raw), res,
                                               CRITERIA_QUESTIONS) ]
    ELSE [ displayed |-> "info", json |-> PyNone, markdown |-> PyNone ]

\* src/zz.py:726-758: the result column and the downloads, drawn from the
\* session state; an empty dict is falsy.
Render(run, raw, res) ==
    IF run /\ res # EmptyDict
    THEN [ displayed |-> "results",
           json |-> create_json_report(raw, TableOrder(raw), res),
           markdown |-> create_markdown_report(raw, res, CRITERIA_QUESTIONS) ]
    ELSE [ displayed |-> "info", json |-> PyNone, markdown |-> PyNone ]

\* After the first run of the script (src/zz.py:601-611, 727-728).
SessionInit ==
    /\ criteria_data = WidgetDefault
    /\ key_order = TableOrder(criteria_data)
    /\ criteria_data_raw = EmptyDict
    /\ criteria_data_calc = EmptyDict
    /\ result = EmptyDict
    /\ run_screener = FALSE
    /\ LET drawn == Render(FALSE, EmptyDict, EmptyDict)
       IN  /\ displayed = drawn.displayed
           /\ json_report = drawn.json
           /\ markdown_report = drawn.markdown
    /\ heap = <<>>
    /\ ref = 0
    /\ pc = "session"

\* The user changes one widget: the script runs without the handler
\* (src/zz.py:611-704, 726-758).
ChangeWidget ==
    /\ pc = "session"
    /\ LET drawn == Render(run_screener, criteria_data_raw, result)
       IN  /\ displayed' = drawn.displayed
           /\ json_report' = drawn.json
           /\ markdown_report' = drawn.markdown
    /\ \E k \in AllKeys : \E v \in WidgetOptions(k) \ {criteria_data[k]} :
          /\ Cardinality(Ticked([criteria_data EXCEPT ![k] = v])) <= MaxTicked
          /\ criteria_data' = [criteria_data EXCEPT ![k] = v]
    /\ UNCHANGED <<key_order, criteria_data_raw, criteria_data_calc, result,
                   run_screener, heap, ref, pc>>

\* The user clicks "Check Eligibility" (src/zz.py:707-720, 726-758).
ClickCheck ==
    /\ pc = "session"
    /\ criteria_data_raw' = criteria_data
    /\ criteria_data_calc' = Consolidate(criteria_data)
    /\ result' = check_eb1_eligibility(criteria_data_calc')
    /\ run_screener' = TRUE
    /\ LET drawn == Render(run_screener', criteria_data_raw', result')
       IN  /\ displayed' = drawn.displayed
           /\ json_report' = drawn.json
           /\ markdown_report' = drawn.markdown
    /\ UNCHANGED <<criteria_data, key_order, heap, ref, pc>>

SessionNext == ChangeWidget \/ ClickCheck

SessionSpec == SessionInit /\ [][SessionNext]_vars

----------------------------------------------------------------------------
(* Properties *)

\* The engine has been called; criteria_data_calc is the map it was given.
Evaluated == pc \in {"classified", "checked"}

countA == eb1a_criteria_met(criteria_data_calc)
countB == eb1b_criteria_met(criteria_data_calc)
major_award == Truthy(GetNone(criteria_data_calc, "major_award"))

\* d with key k set to v, the key added when it is absent
Put(d, k, v) == [x \in DOMAIN d \cup {k} |-> IF x = k THEN v ELSE d[x]]

OutcomeFields ==
    {"category", "status", "score", "color", "title", "details", "next_steps",
     "strength", "processing"}

(* C1: check_eb1_eligibility is total: for every attribute map, keys absent *)
(* or not, it returns one outcome record with all nine fields, a category   *)
(* and a strength of the fixed sets; it never ends without a return.        *)
C1_Totality ==
    Evaluated =>
        /\ result # NoReturn
        /\ DOMAIN result = OutcomeFields
        /\ result.category \in {"EB-1A", "EB-1B", "EB-1C", "EB-1A/EB-1B", "EB-1"}
        /\ result.strength \in
              {"EXCEPTIONAL", "VERY STRONG", "QUALIFIED", "NEEDS EXPERIENCE",
               "NEEDS JOB OFFER", "BORDERLINE", "DEVELOPING", "WEAK",
               "INCOMPLETE", "NOT ELIGIBLE"}
        /\ Len(result.next_steps) >= 1

\* The engine was called on the empty map and returned the default outcome.
C1_Witness ==
    /\ pc = "classified"
    /\ DOMAIN criteria_data = {}
    /\ result.strength = "NOT ELIGIBLE"

(* C2: with major_award false and countA >= 3 the outcome is EB-1A and its  *)
(* band is decided by countA alone: >= 7 EXCEPTIONAL, 5..6 VERY STRONG,     *)
(* 3..4 QUALIFIED, whatever the category-B and category-C attributes are.   *)
C2_CategoryABands ==
    (Evaluated /\ ~major_award /\ countA >= 3) =>
        /\ result.category = "EB-1A"
        /\ countA >= 7 => result.strength = "EXCEPTIONAL"
        /\ countA \in {5, 6} => result.strength = "VERY STRONG"
        /\ countA \in {3, 4} => result.strength = "QUALIFIED"

\* countA is exactly at the threshold 5 while category B and C are both met.
C2_Witness ==
    /\ Evaluated /\ ~major_award
    /\ countA = 5
    /\ eb1b_eligible(criteria_data_calc) /\ eb1c_eligible(criteria_data_calc)
    /\ result.category = "EB-1A" /\ result.strength = "VERY STRONG"

(* C3: with major_award true the outcome is always the one override record  *)
(* (EB-1A, EXCEPTIONAL, score 10/10), whatever the other attributes are.    *)
C3_MajorAwardOverride ==
    (Evaluated /\ major_award) =>
        /\ result.category = "EB-1A"
        /\ result.strength = "EXCEPTIONAL"
        /\ result.score = "10/10"
        /\ result.title = "Major Award Override - Exceptional Case"
        /\ result = MajorAwardOutcome

\* The override is returned although no other criterion is met.
C3_Witness ==
    /\ Evaluated /\ major_award
    /\ countA = 0 /\ countB = 0 /\ ~eb1c_partial(criteria_data_calc)
    /\ result.score = "10/10"

(* C4: on "Check Eligibility" the consolidated map holds, for each shared   *)
(* fact, the OR of its two channel keys; entering the fact through channel  *)
(* A only, through channel B only or through both gives the same countA,    *)
(* the same countB and the same outcome, the other attributes being equal.  *)
SharedFacts == {<<"lesser_awards", "lesser_awards_b">>, <<"membership", "membership_b">>}

\* The three ways of entering the fact of channel keys ch into the raw map.
Entered(raw, ch) ==
    { Put(Put(raw, ch[1], PyTrue), ch[2], PyFalse),
      Put(Put(raw, ch[1], PyFalse), ch[2], PyTrue),
      Put(Put(raw, ch[1], PyTrue), ch[2], PyTrue) }

C4_MergeInvariant ==
    pc = "checked" =>
        \A ch \in SharedFacts :
            LET entered == criteria_data_raw[ch[1]] = PyTrue
                              \/ criteria_data_raw[ch[2]] = PyTrue
            IN  /\ criteria_data_calc[ch[1]] = (IF entered THEN PyTrue ELSE PyFalse)
                /\ entered =>
                      \A other \in Entered(criteria_data_raw, ch) :
                          LET merged == Consolidate(other)
                          IN  /\ eb1a_criteria_met(merged) = countA
                              /\ eb1b_criteria_met(merged) = countB
                              /\ check_eb1_eligibility(merged) = result

\* A lesser award entered through channel B only is the third category-A
\* criterion.
C4_Witness ==
    /\ pc = "checked"
    /\ criteria_data_raw["lesser_awards"] = PyFalse
    /\ criteria_data_raw["lesser_awards_b"] = PyTrue
    /\ ~major_award /\ countA = 3
    /\ result.category = "EB-1A" /\ result.score = "3/10"

(* C5: check_eb1_eligibility never reads the per-channel keys: two maps     *)
(* that agree on every key but lesser_awards_b and membership_b get the     *)
(* same outcome record.                                                     *)
ChannelValues == PyBool \cup {"absent"}
\* d with the two channel-B keys set to la and mb, or left out
WithChannelB(d, la, mb) ==
    [k \in (DOMAIN d \ ChannelBKeys)
            \cup (IF la = "absent" THEN {} ELSE {"lesser_awards_b"})
            \cup (IF mb = "absent" THEN {} ELSE {"membership_b"}) |->
        IF k = "lesser_awards_b" THEN la
        ELSE IF k = "membership_b" THEN mb
        ELSE d[k]]

C5_ChannelKeysUnread ==
    Evaluated =>
        \A la \in ChannelValues, mb \in ChannelValues :
            check_eb1_eligibility(WithChannelB(criteria_data_calc, la, mb)) = result

\* The map main hands to the engine still holds the channel-B keys: a
\* membership entered through channel B alone, not entered through channel
\* A, and counted once.
C5_Witness ==
    /\ pc = "checked"
    /\ criteria_data_calc["membership_b"] = PyTrue
    /\ criteria_data_raw["membership"] = PyFalse
    /\ criteria_data_calc["lesser_awards_b"] = PyFalse
    /\ ~major_award /\ countA = 1 /\ countB = 1
    /\ result.category = "EB-1A/EB-1B"

(* C6: with major_award false, if the outcome is a category-A band, then    *)
(* setting one more of the nine counted category-A flags gives a category-A *)
(* outcome whose band is the same or stronger (one criterion short <        *)
(* qualified < very strong < exceptional).                                  *)
CountedAFlags ==
    {"lesser_awards", "membership", "publications", "judging",
     "original_contributions", "authorship", "performances", "high_salary",
     "commercial_success"}

BandRank(strength) ==
    CASE strength = "BORDERLINE" -> 1
      [] strength = "QUALIFIED" -> 2
      [] strength = "VERY STRONG" -> 3
      [] strength = "EXCEPTIONAL" -> 4
      [] OTHER -> 0

C6_MonotoneInCountA ==
    (Evaluated /\ ~major_award /\ result.category = "EB-1A") =>
        \A f \in CountedAFlags :
            Get(criteria_data_calc, f, PyFalse) = PyFalse =>
                LET more == check_eb1_eligibility(Put(criteria_data_calc, f, PyTrue))
                IN  /\ more.category = "EB-1A"
                    /\ BandRank(more.strength) >= BandRank(result.strength)
                    /\ BandRank(result.strength) >= 1

\* Two category-A criteria (one short), with category C met only in part.
C6_Witness ==
    /\ Evaluated /\ ~major_award
    /\ countA = 2
    /\ result.category = "EB-1A" /\ result.strength = "BORDERLINE"

(* C7: with major_award false, countA <= 2, experience '3_years' and offer  *)
(* 'yes', the outcome is EB-1B EXCEPTIONAL iff countB >= 5, EB-1B VERY      *)
(* STRONG iff countB is 3 or 4, EB-1B QUALIFIED iff countB = 2, whatever    *)
(* the category-C attributes are.                                           *)
IsOutcome(r, category, strength) == r.category = category /\ r.strength = strength

C8_CategoryCQualified ==
    Evaluated =>
        ( ( /\ IsOutcome(result, "EB-1C", "QUALIFIED")
            /\ result.score = "Met" )
          <=>
          ( /\ GetNone(criteria_data_calc, "managerial_role") = "yes"
            /\ GetNone(criteria_data_calc, "one_year_exp") = "yes"
            /\ GetNone(criteria_data_calc, "transfer") = "yes"
            /\ ~major_award
            /\ countA <= 2
            /\ ~( /\ GetNone(criteria_data_calc, "experience") = "3_years"
                  /\ GetNone(criteria_data_calc, "offer") = "yes"
                  /\ countB >= 2 ) ) )

\* EB-1C QUALIFIED is returned although the conditions of "needs
\* experience" and of "one criterion short" of category A hold as well.
C8_Witness ==
    /\ Evaluated
    /\ IsOutcome(result, "EB-1C", "QUALIFIED")
    /\ countB >= 2
    /\ GetNone(criteria_data_calc, "offer") = "yes"
    /\ GetNone(criteria_data_calc, "experience") # "3_years"
    /\ countA = 2

(* C9: the tests of "needs experience" and "needs job offer" (rules 9, 10)  *)
(* come before the test of "one criterion short" of category B (rule 11) in *)
(* the source, but the order between them decides nothing: rule 11 needs    *)
(* countB = 1 and rules 9 and 10 need countB >= 2, so no input satisfies    *)
(* two of them, and testing rule 11 first gives the same outcome for every  *)
(* input.                                                                   *)

\* The chain of returns with rule 11 (Outcome10) tested before rules 9 and
\* 10 (Outcome8, Outcome9).
OutcomesRule11First(data, v) ==
    IF Outcome1Cond(data, v) THEN Outcome1(v)
    ELSE IF Outcome2Cond(data, v) THEN Outcome2(v)
    ELSE IF Outcome3Cond(data, v) THEN Outcome3(v)
    ELSE IF Outcome4Cond(data, v) THEN Outcome4(v)
    ELSE IF Outcome5Cond(data, v) THEN Outcome5(v)
    ELSE IF Outcome6Cond(data, v) THEN Outcome6(v)
    ELSE IF Outcome7Cond(data, v) THEN Outcome7
    ELSE IF Outcome10Cond(data, v) THEN Outcome10(v)
    ELSE IF Outcome8Cond(data, v) THEN Outcome8(v)
    ELSE IF Outcome9Cond(data, v) THEN Outcome9(v)
    ELSE IF Outcome11Cond(data, v) THEN Outcome11(v)
    ELSE IF Outcome12Cond(data, v) THEN Outcome12(v)
    ELSE IF Outcome13Cond(data, v) THEN Outcome13
    ELSE IF Outcome14Cond(data, v) THEN Outcome14
    ELSE IF Outcome15Cond(data, v) THEN Outcome15
    ELSE NoReturn

CheckRule11First(data) ==
    IF MajorAwardCond(data) THEN MajorAwardOutcome
    ELSE OutcomesRule11First(data, Locals(data))

C9_OrderImmaterial ==
    Evaluated =>
        LET v == Locals(criteria_data_calc)
        IN  /\ CheckRule11First(criteria_data_calc) = result
            /\ ~( /\ Outcome10Cond(criteria_data_calc, v)
                  /\ \/ Outcome8Cond(criteria_data_calc, v)
                     \/ Outcome9Cond(criteria_data_calc, v) )

\* Rule 11 returns after rules 9 and 10 were tested: experience and offer
\* are there, and one category-B criterion.
C9_Witness ==
    /\ Evaluated
    /\ IsOutcome(result, "EB-1B", "BORDERLINE")
    /\ countB = 1
    /\ result.score = "1/6"

\* C9 as claimed: testing rule 11 before rules 9 and 10 changes the outcome
\* of at least one input.
C9_OrderLoadBearing ==
    Evaluated =>
        \E form \in InputForms :
            SomeInput(form, LAMBDA d : CheckRule11First(d) # check_eb1_eligibility(d))

(* C10: the weak-profile outcome (EB-1, WEAK, '1 criterion met') is         *)
(* returned only when one of countA, countB is 1 and the other is 0; when   *)
(* countA = 1, countB >= 1 and no earlier rule matches, the dual outcome    *)
(* EB-1A/EB-1B is returned, its details list 'EB-1A (countA/10)' and        *)
(* 'EB-1B (countB/6)' and its score reports max(countA, countB).            *)
EarlierThanDual(d) ==
    \/ Truthy(GetNone(d, "major_award"))
    \/ eb1a_criteria_met(d) >= 2
    \/ GetNone(d, "experience") = "3_years" /\ GetNone(d, "offer") = "yes"
          /\ eb1b_criteria_met(d) >= 1
    \/ /\ GetNone(d, "managerial_role") = "yes"
       /\ GetNone(d, "one_year_exp") = "yes"
       /\ GetNone(d, "transfer") = "yes"
    \/ eb1b_criteria_met(d) >= 2
          /\ (GetNone(d, "experience") = "3_years" \/ GetNone(d, "offer") = "yes")

C10_WeakAndDual ==
    Evaluated =>
        /\ ( /\ IsOutcome(result, "EB-1", "WEAK")
             /\ result.score = "1 criterion met" )
           => \/ countA = 1 /\ countB = 0
              \/ countA = 0 /\ countB = 1
        /\ result.strength = "WEAK" => result.category = "EB-1"
        /\ (countA = 1 /\ countB >= 1 /\ ~EarlierThanDual(criteria_data_calc)) =>
              /\ result.category = "EB-1A/EB-1B"
              /\ result.strength = "DEVELOPING"
              /\ result.score = ToString(IF countA >= countB THEN countA ELSE countB)
                                    \o " criteria"
              /\ result.details =
                    "You show potential for multiple EB-1 pathways: EB-1A ("
                    \o ToString(countA) \o "/10), EB-1B (" \o ToString(countB)
                    \o "/6). However, you need significantly more achievements to qualify for either category."

\* The dual outcome with more category-B criteria than category-A criteria:
\* the score reports countB.
C10_Witness ==
    /\ Evaluated /\ ~major_award
    /\ countA = 1 /\ countB = 3
    /\ result.category = "EB-1A/EB-1B"
    /\ result.score = "3 criteria"

(* C11: for every input with major_award false, countA = 0 and countB = 0 in *)
(* which at least one but not all of managerial_role, one_year_exp and      *)
(* transfer is 'yes', the outcome is EB-1C INCOMPLETE with score            *)
(* 'Incomplete', whatever experience and offer are; and the INCOMPLETE      *)
(* outcome is returned for no other input.                                  *)
CategoryCKeys == {"managerial_role", "one_year_exp", "transfer"}

SomeNotAllCategoryC(d) ==
    /\ \E k \in CategoryCKeys : GetNone(d, k) = "yes"
    /\ \E k \in CategoryCKeys : GetNone(d, k) # "yes"

C11_IncompleteCategoryC ==
    Evaluated =>
        ( /\ IsOutcome(result, "EB-1C", "INCOMPLETE")
          /\ result.score = "Incomplete" )
        <=> ( /\ ~major_award
              /\ countA = 0
              /\ countB = 0
              /\ SomeNotAllCategoryC(criteria_data_calc) )

\* Only the transfer attribute is 'yes', with a job offer and three years of
\* experience entered: the outcome is INCOMPLETE all the same.
C11_Witness ==
    /\ Evaluated /\ ~major_award
    /\ countA = 0 /\ countB = 0
    /\ GetNone(criteria_data_calc, "transfer") = "yes"
    /\ GetNone(criteria_data_calc, "managerial_role") # "yes"
    /\ GetNone(criteria_data_calc, "offer") = "yes"
    /\ GetNone(criteria_data_calc, "experience") = "3_years"
    /\ IsOutcome(result, "EB-1C", "INCOMPLETE")

(* C12: in every returned record whose category is EB-1A, other than the    *)
(* major-award override, the score is exactly '<countA>/10'; in every       *)
(* record whose category is EB-1B the score is exactly '<countB>/6'; and    *)
(* the next_steps list depends only on which rule matched, never on the     *)
(* counters.                                                                *)
BlankLocals ==
    [ eb1a_criteria_met |-> 0,
      eb1b_criteria_met |-> 0,
      has_eb1b_basics |-> FALSE,
      eb1b_eligible |-> FALSE,
      eb1c_eligible |-> FALSE ]

\* The record of every return statement, built with the counters v.
RuleRecords(v) ==
    { MajorAwardOutcome, Outcome1(v), Outcome2(v), Outcome3(v), Outcome4(v),
      Outcome5(v), Outcome6(v), Outcome7, Outcome8(v), Outcome9(v),
      Outcome10(v), Outcome11(v), Outcome12(v), Outcome13, Outcome14,
      Outcome15 }

BlankRecords == RuleRecords(BlankLocals)

\* The next_steps list of the rule with this title, taken from the record
\* built with all counters 0.
StepsOfRule(title) ==
    (CHOOSE r \in BlankRecords : r.title = title).next_steps

C12_ScoresAndSteps ==
    Evaluated =>
        /\ (~major_award /\ result.category = "EB-1A")
              => result.score = ToString(countA) \o "/10"
        /\ result.category = "EB-1B"
              => result.score = ToString(countB) \o "/6"
        /\ \E r \in BlankRecords : r.title = result.title
        /\ result.next_steps = StepsOfRule(result.title)

\* A category-B record whose count includes the tenure-track position, and a
\* category-A record with five criteria.
C12_Witness ==
    /\ Evaluated /\ ~major_award
    /\ result.category = "EB-1B"
    /\ GetNone(criteria_data_calc, "tenure") = "yes"
    /\ countB = 4
    /\ result.score = "4/6"
    /\ Len(result.next_steps) > 0

(* C18: the not-eligible default (EB-1, NOT ELIGIBLE, score '0 criteria') is *)
(* returned only when countA = 0 and countB = 0 and no category-C attribute *)
(* is 'yes'; an input with countB >= 2 never receives '0 criteria'.         *)
C18_DefaultOnlyZeroCriteria ==
    Evaluated =>
        /\ ( /\ IsOutcome(result, "EB-1", "NOT ELIGIBLE")
             /\ result.score = "0 criteria" )
           => /\ countA = 0
              /\ countB = 0
              /\ \A k \in CategoryCKeys : GetNone(criteria_data_calc, k) # "yes"
        /\ countB >= 2 => result.score # "0 criteria"

(* C20: no rule is dead.  After the major-award check the engine has a      *)
(* fixed list of 15 returns, and for each of them, and for the override,    *)
(* there is an input whose first matching rule it is: every one of the 16   *)
(* outcome records is returned for some input, the category-B record with   *)
(* score '6/6' and the weak-profile record among them.                      *)

\* The flags of a list with its first n set.
FirstSet(keys, n) ==
    [k \in Range(keys) |->
        IF \E i \in 1..n : keys[i] = k THEN PyTrue ELSE PyFalse]

\* Maps the engine is called with, in their sparse form: every count of the
\* two flag lists, every value of the other keys.
EngineInputs ==
    { Sparse(Merge(FirstSet(AOnlyKeys, a),
             Merge(FirstSet(ResearchKeys, r),
             Merge(b, Merge(y, [experience |-> e]))))) :
        a \in 0..Len(AOnlyKeys),
        r \in 0..Len(ResearchKeys),
        b \in [OtherCheckboxKeys \ ChannelBKeys -> PyBool],
        y \in [YesNoKeys -> YesNo],
        e \in ExperienceOptions }

\* Title and score of every record returned for one of these maps.
ReachedOutcomes ==
    { LET r == check_eb1_eligibility(d) IN <<r.title, r.score>> : d \in EngineInputs }

ReachedTitles == {o[1] : o \in ReachedOutcomes}

RuleTitles == {r.title : r \in BlankRecords}

C20_NoDeadRule ==
    Evaluated =>
        /\ Cardinality(RuleTitles) = 16
        /\ result.title \in RuleTitles
        /\ \A t \in RuleTitles : t \in ReachedTitles
        /\ <<Outcome4(BlankLocals).title, "6/6">> \in ReachedOutcomes
        /\ <<Outcome13.title, "1 criterion met">> \in ReachedOutcomes

\* The exceptional category-B record with all six criteria: both shared facts
\* are set, so countA = 2 stays below the category-A threshold.
C20_Witness ==
    /\ Evaluated /\ ~major_award
    /\ countA = 2 /\ countB = 6
    /\ result.title = Outcome4(BlankLocals).title
    /\ result.score = "6/6"

(* C13: for every outcome record check_eb1_eligibility can return, the      *)
(* Status and Category that create_json_report emits are plain text: the    *)
(* decorative glyph that opens the status of any of the 16 outcomes is      *)
(* removed.                                                                 *)
Glyphs ==
    {CheckMark, YellowCircle, OrangeCircle, CrossMark,
     StarGlyph, MicroscopeGlyph, OfficeGlyph}

C13_PlainStatusAndCategory ==
    pc = "json" =>
        /\ \A i \in DOMAIN json_report.Assessment_Result.Status :
              json_report.Assessment_Result.Status[i] \notin Glyphs
        /\ \A i \in DOMAIN json_report.Assessment_Result.Category :
              json_report.Assessment_Result.Category[i] \notin Glyphs

\* Every outcome record of the engine is among the records reported.
ProfilesCoverOutcomes ==
    {check_eb1_eligibility(Consolidate(OutcomeProfiles[i])).title :
        i \in DOMAIN OutcomeProfiles} = RuleTitles

(* C14: for every attribute map, any subset of the keys present, and every  *)
(* key of CRITERIA_QUESTIONS, the criteria summary of create_json_report    *)
(* holds an entry under that key's question text whose value is the         *)
(* formatted value of the attribute, an absent key being reported as its    *)
(* default ('No' for the flags and the yes/no boxes, 'Less than 3 years'    *)
(* for experience); no key is missing and no two keys share an entry.       *)
DefaultValue(key) ==
    IF key = "experience" THEN "<3_years"
    ELSE IF key \in YesNoKeys THEN "no"
    ELSE PyFalse

C14_SummaryHoldsEveryKey ==
    pc = "json" =>
        LET summary == json_report.User_Input_Criteria_Summary
        IN  /\ \A key \in AllKeys :
                  \E i \in DOMAIN summary :
                      /\ summary[i][1] = ItemsGet(CRITERIA_QUESTIONS, key, key)
                      /\ summary[i][2] =
                             display_value(key, Get(criteria_data, key,
                                                    DefaultValue(key)))
            /\ \A i, j \in DOMAIN summary :
                  summary[i][1] = summary[j][1] => i = j

(* C15: in both report forms the attributes appear in the iteration order   *)
(* of CRITERIA_QUESTIONS, for every attribute map, whatever the order in    *)
(* which its keys were inserted.                                            *)
TableQuestions == {CRITERIA_QUESTIONS[i][2] : i \in DOMAIN CRITERIA_QUESTIONS}

TableIndex(question) ==
    CHOOSE i \in DOMAIN CRITERIA_QUESTIONS : CRITERIA_QUESTIONS[i][2] = question

\* The items listed under a question of the table are in table order.
InTableOrder(items) ==
    \A i, j \in DOMAIN items :
        (i < j /\ items[i][1] \in TableQuestions /\ items[j][1] \in TableQuestions)
            => TableIndex(items[i][1]) < TableIndex(items[j][1])

C15_ReportsInTableOrder ==
    /\ pc = "json" => InTableOrder(json_report.User_Input_Criteria_Summary)
    /\ pc = "markdown" => InTableOrder(markdown_report.Qualifications)

(* C16: value formatting.  In both reports a boolean or yes/no value        *)
(* renders as Yes or No, experience renders as '3+ years' or 'Less than 3   *)
(* years', and any unrecognized value of any key, experience included,      *)
(* renders as its literal string form; an attribute that is not set is      *)
(* rendered as its default, never as another literal.                       *)

\* The Yes and No of each report form, with the decoration the form gives.
YesText(form) ==
    IF form = "json" THEN "Yes (" \o CheckMark \o ")" ELSE CheckMark \o " YES"
NoText(form) ==
    IF form = "json" THEN "No (" \o CrossMark \o ")" ELSE CrossMark \o " NO"

Rendered(form, key, value) ==
    IF key = "experience"
        THEN IF value = "3_years" THEN "3+ years"
             ELSE IF value = "<3_years" THEN "Less than 3 years"
             ELSE value
    ELSE IF value \in {PyTrue, "yes"} THEN YesText(form)
    ELSE IF value \in {PyFalse, "no"} THEN NoText(form)
    ELSE value

C16_ValueFormatting ==
    /\ pc = "json" =>
          \A key \in DOMAIN criteria_data :
              ItemsGet(json_report.User_Input_Criteria_Summary,
                       ItemsGet(CRITERIA_QUESTIONS, key, key), PyNone)
                  = Rendered("json", key, criteria_data[key])
    /\ pc = "markdown" =>
          \A i \in DOMAIN CRITERIA_QUESTIONS :
              LET key == CRITERIA_QUESTIONS[i][1]
              IN  markdown_report.Qualifications[i][2]
                      = Rendered("markdown", key,
                                 Get(criteria_data, key, DefaultValue(key)))

(* C17: purity.  check_eb1_eligibility, create_json_report and              *)
(* create_markdown_report leave their arguments unchanged, and every call   *)
(* of check_eb1_eligibility returns a freshly built record: writing into a  *)
(* record returned earlier never changes what a later call returns.         *)

\* The record just returned is a new object, and its content is the one the
\* engine computes for the map.
C17_FreshRecord ==
    pc = "check" =>
        /\ ref = Len(heap)
        /\ heap[ref] = check_eb1_eligibility(criteria_data)
        /\ result = check_eb1_eligibility(criteria_data)

\* A call changes neither the map it is given nor any record that existed
\* before it.
C17_ArgumentsUnchanged ==
    pc' \in {"check", "json", "markdown"} =>
        /\ criteria_data' = criteria_data
        /\ key_order' = key_order
        /\ \A i \in DOMAIN heap : i \in DOMAIN heap' /\ heap'[i] = heap[i]

C17_Purity == [](C17_FreshRecord) /\ [][C17_ArgumentsUnchanged]_vars

\* A second call, made for the same map after the caller has written into
\* the record of the first call.
C17_Witness ==
    /\ pc = "check"
    /\ Len(heap) = 2
    /\ heap[1].title = heap[2].title
    /\ heap[1].score = "edited"
    /\ heap[2].score # "edited"

(* C19: snapshot consistency of the session.  After any sequence of widget  *)
(* changes and clicks, whenever run_screener is true the stored result is   *)
(* the engine's record for the OR-merged copy of the stored                 *)
(* criteria_data_raw of the same click; widget changes after the last click *)
(* alter neither the stored result nor the raw snapshot; the merge never    *)
(* writes into the raw snapshot; both reports are built from that same      *)
(* pair; before the first click no result is displayed; and run_screener    *)
(* never returns to false.                                                  *)

\* The raw snapshot with each shared fact set when either channel has it.
OrMerged(raw) ==
    [k \in DOMAIN raw |->
        IF k = "lesser_awards"
            THEN (IF PyTrue \in {raw["lesser_awards"], raw["lesser_awards_b"]}
                  THEN PyTrue ELSE PyFalse)
        ELSE IF k = "membership"
            THEN (IF PyTrue \in {raw["membership"], raw["membership_b"]}
                  THEN PyTrue ELSE PyFalse)
        ELSE raw[k]]

C19_Stored ==
    /\ run_screener =>
          /\ DOMAIN criteria_data_raw = AllKeys
          /\ result = check_eb1_eligibility(OrMerged(criteria_data_raw))
          /\ displayed = "results"
          /\ json_report =
                 create_json_report(criteria_data_raw,
                                    TableOrder(criteria_data_raw), result)
          /\ markdown_report =
                 create_markdown_report(criteria_data_raw, result,
                                        CRITERIA_QUESTIONS)
    /\ ~run_screener =>
          /\ result = EmptyDict
          /\ displayed = "info"
          /\ json_report = PyNone
          /\ markdown_report = PyNone

C19_Step ==
    /\ run_screener => run_screener'
    \* a widget change
    /\ criteria_data' # criteria_data =>
          /\ criteria_data_raw' = criteria_data_raw
          /\ result' = result
    \* a click: the snapshot holds the widget values as they were entered
    /\ criteria_data' = criteria_data => criteria_data_raw' = criteria_data

C19_SnapshotConsistency == [](C19_Stored) /\ [][C19_Step]_vars

\* Category-B awards were ticked at the click and unticked afterwards: the
\* snapshot keeps the two channels apart and the result is the one of the
\* merged map, while the widgets show another state.
C19_Witness ==
    /\ run_screener
    /\ criteria_data # criteria_data_raw
    /\ criteria_data_raw["lesser_awards_b"] = PyTrue
    /\ criteria_data_raw["lesser_awards"] = PyFalse
    /\ criteria_data_calc["lesser_awards"] = PyTrue
    /\ result.category = "EB-1A/EB-1B"
    /\ json_report.Assessment_Result.Title = result.title

====
